---- MODULE Spec2Model ----
(***************************************************************************)
(* Course recommender: cosine_faiss_utils.py (build / load / search of the *)
(* FAISS index and the processed table) and recommender_agent.py           *)
(* (CourseRecommender).                                                    *)
(*                                                                         *)
(* Two artifacts live on disk: course_index.faiss and                      *)
(* processed_courses.csv.  A build pass writes the first and then the      *)
(* second; a load reads the first and then the second.  The recommender    *)
(* keeps the loaded pair and answers get_recommendations(query, top_k).    *)
(*                                                                         *)
(* Vectors are two-dimensional with integer components; every raw          *)
(* embedding is axis-aligned, so normalisation and squared distances are   *)
(* exact in integers (squared distances between unit vectors: 0, 2, 4).    *)
(***************************************************************************)
EXTENDS Integers, Sequences, FiniteSets, TLC

\* ---------------------------------------------------------------- bounds
MaxRows == 2      \* rows of a catalog CSV
MaxBuilds == 1    \* build passes run after start-up (pass 0 predates it)
MaxK == 3         \* largest top_k a caller passes
MaxPriceLen == 4  \* characters of a raw Price cell

\* Largest finite float32 (scaled down): the distance the flat index reports
\* for a slot it could not fill; squaring it overflows to infinity.
F32Max == 1000

Inf == F32Max + 1

\* ------------------------------------------------------------ text inputs
QueryTexts == {"python", "leadership", "cooking"}
TopKs == (0 - 1)..MaxK

\* SentenceTransformer.encode: an opaque, deterministic map from a text to a
\* raw (not yet normalised) vector.
Encode(text) ==
    CASE text = "python" -> <<2, 0>>
      [] text = "leadership" -> <<0, 3>>
      [] OTHER -> <<-1, 0>>

Abs(x) == IF x < 0 THEN 0 - x ELSE x

\* np.linalg.norm(v): the integer n with n*n = v[1]^2 + v[2]^2.
Norm(v) == CHOOSE n \in 0..(Abs(v[1]) + Abs(v[2])) : n * n = v[1] * v[1] + v[2] * v[2]

\* v / np.linalg.norm(v)
Normalize(v) == <<v[1] \div Norm(v), v[2] \div Norm(v)>>

\* ------------------------------------------------------------- artifacts
\* A file, or an in-memory object: some = FALSE is an absent file / None.
\* gen is the build pass that produced it; data is the stored vectors (for
\* an index) or the rows (for a table).
Nothing == [some |-> FALSE, gen |-> 0, data |-> <<>>]

\* Record i of the source CSV (pd.read_csv, line 17), which only grows: a
\* catalog is its first n records.
CourseAt(i) == IF i % 2 = 1 THEN "python" ELSE "leadership"

Catalogs(lo) == {[i \in 1..n |-> CourseAt(i)] : n \in lo..MaxRows}

\* df after the cleaning of lines 17-42: one row per CSV record.
MakeTable(csv, g) ==
    [some |-> TRUE, gen |-> g, data |-> [i \in 1..Len(csv) |-> [title |-> csv[i], row |-> i - 1]]]

\* IndexFlatL2 holding the normalised embeddings of the rows, in row order.
MakeIndex(csv, g) ==
    [some |-> TRUE, gen |-> g, data |-> [i \in 1..Len(csv) |-> Normalize(Encode(csv[i]))]]

NTotal(index) == Len(index.data)

VARIABLES idxFile, tblFile, bPc, bDf, nBuilds,
          rPc, lIndex, rIndex, rDf, loadLog, sawIdx, sawTbl,
          callK, callHits, callResult, callOutcome, callLog,
          priceRaw, priceOut, pricePc

vars == <<idxFile, tblFile, bPc, bDf, nBuilds,
          rPc, lIndex, rIndex, rDf, loadLog, sawIdx, sawTbl,
          callK, callHits, callResult, callOutcome, callLog,
          priceRaw, priceOut, pricePc>>

priceVars == <<priceRaw, priceOut, pricePc>>
buildVars == <<idxFile, tblFile, bPc, bDf, nBuilds, priceRaw, priceOut, pricePc>>
loadVars == <<rPc, lIndex, rIndex, rDf, loadLog, sawIdx, sawTbl>>
callVars == <<callK, callHits, callResult, callOutcome, callLog>>

NoCall ==
    /\ callK' = 0
    /\ callHits' = <<>>
    /\ callResult' = <<>>
    /\ callOutcome' = "none"
    /\ callLog' = "none"

\* The disk at start-up: each artifact is absent, or is the one an earlier
\* pass (pass 0) left from some catalog, possibly a header-only one.
Init ==
    /\ \E csv \in Catalogs(0) :
          /\ idxFile \in {Nothing, MakeIndex(csv, 0)}
          /\ tblFile \in {Nothing, MakeTable(csv, 0)}
    /\ bPc = "idle"
    /\ bDf = Nothing
    /\ nBuilds = 0
    /\ rPc = "none"
    /\ lIndex = Nothing
    /\ rIndex = Nothing
    /\ rDf = Nothing
    /\ loadLog = "none"
    /\ sawIdx = TRUE
    /\ sawTbl = TRUE
    /\ callK = 0
    /\ callHits = <<>>
    /\ callResult = <<>>
    /\ callOutcome = "none"
    /\ callLog = "none"
    /\ priceRaw = [some |-> FALSE, text |-> <<>>]
    /\ priceOut = 0
    /\ pricePc = "idle"

\* ------------------------------------------------------------------ build
\* create_and_save_faiss_index, lines 17-65: read and clean the CSV, embed
\* and normalise, fill the index, write course_index.faiss.
BuildWriteIndex(csv) ==
    /\ bPc = "idle"
    /\ nBuilds < MaxBuilds
    /\ nBuilds' = nBuilds + 1
    /\ idxFile' = MakeIndex(csv, nBuilds + 1)
    /\ bDf' = MakeTable(csv, nBuilds + 1)
    /\ bPc' = "index_written"
    /\ UNCHANGED <<tblFile>>
    /\ UNCHANGED priceVars
    /\ UNCHANGED loadVars
    /\ UNCHANGED callVars

\* create_and_save_faiss_index, line 69: df.to_csv('processed_courses.csv').
BuildWriteTable ==
    /\ bPc = "index_written"
    /\ tblFile' = bDf
    /\ bDf' = Nothing
    /\ bPc' = "idle"
    /\ UNCHANGED <<idxFile, nBuilds>>
    /\ UNCHANGED priceVars
    /\ UNCHANGED loadVars
    /\ UNCHANGED callVars

\* The pass ends after line 65 and before line 69 has written anything
\* (to_csv raises, or the process is stopped): the table file is untouched.
BuildStopped ==
    /\ bPc = "index_written"
    /\ bDf' = Nothing
    /\ bPc' = "idle"
    /\ UNCHANGED <<idxFile, tblFile, nBuilds>>
    /\ UNCHANGED priceVars
    /\ UNCHANGED loadVars
    /\ UNCHANGED callVars

\* ------------------------------------------------------------------- load
\* What load_faiss_index returns, and prints, when faiss.read_index finds no
\* file: faiss raises RuntimeError, which the except Exception clause takes.
IndexMissingReturn == [index |-> Nothing, df |-> Nothing, log |-> "load_error"]

\* What it returns when pd.read_csv finds no file: FileNotFoundError.
TableMissingReturn == [index |-> Nothing, df |-> Nothing, log |-> "not_found"]

\* Line 90: return index, df.
LoadedReturn(index, df) == [index |-> index, df |-> df, log |-> "loaded"]

\* CourseRecommender() -> load_faiss_index, line 84: faiss.read_index.
LoadReadIndex ==
    /\ rPc \in {"none", "constructed"}
    /\ sawIdx' = idxFile.some
    /\ sawTbl' = tblFile.some
    /\ IF idxFile.some
          THEN /\ lIndex' = idxFile
               /\ rPc' = "index_read"
               /\ rIndex' = Nothing
               /\ rDf' = Nothing
               /\ loadLog' = "none"
          ELSE /\ lIndex' = Nothing
               /\ rPc' = "constructed"
               /\ rIndex' = IndexMissingReturn.index
               /\ rDf' = IndexMissingReturn.df
               /\ loadLog' = IndexMissingReturn.log
    /\ NoCall
    /\ UNCHANGED buildVars

\* load_faiss_index, lines 87-98, and __init__ line 14 storing the pair.
LoadReadTable ==
    /\ rPc = "index_read"
    /\ sawTbl' = tblFile.some
    /\ LET ret == IF tblFile.some THEN LoadedReturn(lIndex, tblFile)
                                  ELSE TableMissingReturn
       IN /\ rIndex' = ret.index
          /\ rDf' = ret.df
          /\ loadLog' = ret.log
    /\ lIndex' = Nothing
    /\ rPc' = "constructed"
    /\ UNCHANGED <<sawIdx>>
    /\ UNCHANGED callVars
    /\ UNCHANGED buildVars

\* ------------------------------------------------------------ price cell
\* The characters a raw Price cell is made of here.
PriceChars == {"1", "2", ",", "/", "-", " ", "x"}

\* A Price cell of the CSV: absent (NaN after read_csv), or a text.
PriceCells ==
    {[some |-> FALSE, text |-> <<>>]}
        \cup {[some |-> TRUE, text |-> t] :
                 t \in UNION {[1..n -> PriceChars] : n \in 1..MaxPriceLen}}

\* Line 22: df['Price'].fillna('0')
FillNa(cell) == IF cell.some THEN cell.text ELSE <<"0">>

\* re.sub(chars, '', x): every occurrence of a character of the class goes,
\* wherever it stands.
RemoveChars(t, chars) == SelectSeq(t, LAMBDA c : c \notin chars)

\* str.strip(): leading and trailing blanks go.
Strip(t) ==
    IF \A i \in 1..Len(t) : t[i] = " "
       THEN <<>>
       ELSE LET first == CHOOSE i \in 1..Len(t) :
                            t[i] # " " /\ \A j \in 1..(i - 1) : t[j] = " "
                last == CHOOSE i \in 1..Len(t) :
                            t[i] # " " /\ \A j \in (i + 1)..Len(t) : t[j] = " "
            IN SubSeq(t, first, last)

\* Line 25: re.sub(r'[,/-]', '', x).strip()
CleanPriceText(t) == Strip(RemoveChars(t, {",", "/", "-"}))

DigitValue(c) == CASE c = "0" -> 0 [] c = "1" -> 1 [] c = "2" -> 2 [] OTHER -> 0 - 1

RECURSIVE DigitsValue(_)
DigitsValue(t) ==
    IF t = <<>> THEN 0
    ELSE 10 * DigitsValue(SubSeq(t, 1, Len(t) - 1)) + DigitValue(t[Len(t)])

IsDigits(t) == t # <<>> /\ \A i \in 1..Len(t) : DigitValue(t[i]) >= 0

\* pd.to_numeric(..., errors='coerce') on one text: its value when it is a
\* numeral (an optional sign and digits), NaN otherwise.
ToNumeric(t) ==
    IF IsDigits(t) THEN [nan |-> FALSE, val |-> DigitsValue(t)]
    ELSE IF Len(t) >= 2 /\ t[1] = "-" /\ IsDigits(Tail(t))
            THEN [nan |-> FALSE, val |-> 0 - DigitsValue(Tail(t))]
            ELSE [nan |-> TRUE, val |-> 0]

\* Lines 22-26: the Price the build stores for a raw cell.
StoredPrice(cell) ==
    LET n == ToNumeric(CleanPriceText(FillNa(cell)))
    IN IF n.nan THEN 0 ELSE n.val

\* create_and_save_faiss_index, lines 19-26, on one cell of the column.
CleanPrice ==
    /\ pricePc = "raw"
    /\ priceOut' = StoredPrice(priceRaw)
    /\ pricePc' = "done"
    /\ UNCHANGED <<priceRaw>>
    /\ UNCHANGED <<idxFile, tblFile, bPc, bDf, nBuilds>>
    /\ UNCHANGED loadVars
    /\ UNCHANGED callVars

\* A build pass about to clean one Price cell, nothing written or loaded yet.
InitPrice ==
    /\ priceRaw \in PriceCells
    /\ priceOut = 0
    /\ pricePc = "raw"
    /\ idxFile = Nothing
    /\ tblFile = Nothing
    /\ bPc = "idle"
    /\ bDf = Nothing
    /\ nBuilds = 0
    /\ rPc = "none"
    /\ lIndex = Nothing
    /\ rIndex = Nothing
    /\ rDf = Nothing
    /\ loadLog = "none"
    /\ sawIdx = TRUE
    /\ sawTbl = TRUE
    /\ callK = 0
    /\ callHits = <<>>
    /\ callResult = <<>>
    /\ callOutcome = "none"
    /\ callLog = "none"

NextPrice == CleanPrice

SpecPrice == InitPrice /\ [][NextPrice]_vars

\* The price the claim describes: commas and one trailing "/-" stripped, the
\* rest coerced to a number, 0 when the cell is absent or the rest is no
\* number.
StripSuffix(t) ==
    IF Len(t) >= 2 /\ t[Len(t) - 1] = "/" /\ t[Len(t)] = "-"
       THEN SubSeq(t, 1, Len(t) - 2) ELSE t

ClaimedPrice(cell) ==
    LET n == ToNumeric(Strip(StripSuffix(Strip(RemoveChars(FillNa(cell), {","})))))
    IN IF n.nan THEN 0 ELSE n.val

\* C11: the stored price is non-negative and is the price obtained by
\* stripping commas and the trailing "/-" and coercing the rest, 0 when the
\* cell is absent or the rest is no number (cells whose rest is a negative
\* numeral are left out of the comparison).
C11_PriceIsStrippedAndCoerced ==
    pricePc = "done"
        => /\ priceOut >= 0
           /\ ClaimedPrice(priceRaw) >= 0 => priceOut = ClaimedPrice(priceRaw)

\* ----------------------------------------------------------------- search
\* Squared Euclidean distance, the metric of IndexFlatL2.
L2Sqr(a, b) == (a[1] - b[1]) * (a[1] - b[1]) + (a[2] - b[2]) * (a[2] - b[2])

\* float32 arithmetic of line 132 on the scaled-down range: x ** 2 overflows
\* to infinity above the largest finite value, 2 - inf is -inf, -inf / 2 is
\* -inf.  Every finite operand of the division is even here.
F32Sqr(x) == IF x * x > F32Max THEN Inf ELSE x * x
F32Sub(a, b) == IF b = Inf THEN 0 - Inf ELSE a - b
F32Half(x) == IF x = 0 - Inf THEN 0 - Inf ELSE x \div 2

\* The subtraction of line 132 with its operands exchanged.
SimilaritySwapped(dist) ==
    IF F32Sqr(dist) = Inf THEN Inf ELSE F32Half(F32Sqr(dist) - 2)

\* Line 132: similarities = (2 - distances[0] ** 2) / 2
Similarity(dist) == F32Half(F32Sub(2, F32Sqr(dist)))

\* The orders in which the flat index may rank its entries for a query:
\* ascending squared distance, ties in either order.
RankOrders(index, qv) ==
    {p \in [1..NTotal(index) -> 1..NTotal(index)] :
        /\ \A i, j \in 1..NTotal(index) : i # j => p[i] # p[j]
        /\ \A i, j \in 1..NTotal(index) :
              i < j => L2Sqr(qv, index.data[p[i]]) <= L2Sqr(qv, index.data[p[j]])}

\* Line 128: index.search(query, top_k) for top_k > 0: top_k slots, the
\* nearest entries first (position, squared distance); the slots the index
\* cannot fill hold position -1 and the largest float.
IndexSearch(index, qv, k, p) ==
    [i \in 1..k |->
        IF i <= NTotal(index)
           THEN [idx |-> p[i] - 1, dist |-> L2Sqr(qv, index.data[p[i]])]
           ELSE [idx |-> 0 - 1, dist |-> F32Max]]

\* Line 137: if idx < len(df)
IndexValid(idx, df) == idx < Len(df.data)

\* Line 138: df.iloc[idx] accepts -len(df) <= idx < len(df) and raises
\* IndexError outside that range.
ILocInBounds(df, idx) == 0 - Len(df.data) <= idx /\ idx < Len(df.data)

\* Line 138: df.iloc[idx]; a negative idx counts from the end.
ILoc(df, idx) == IF idx >= 0 THEN df.data[idx + 1] ELSE df.data[Len(df.data) + idx + 1]

\* The loop of lines 136-139 raises when a hit passes line 137 and
\* df.iloc[idx] has no such row.
LookupRaises(hits, df) ==
    \E i \in 1..Len(hits) : IndexValid(hits[i].idx, df) /\ ~ILocInBounds(df, hits[i].idx)

\* Lines 135-139: the (course, score) pairs of the hits that pass the test of
\* line 137, in hit order.  hit is the slot of the search the pair came from.
Recommendations(hits, df) ==
    LET tagged == [i \in 1..Len(hits) |->
                      [hit |-> i, idx |-> hits[i].idx, score |-> Similarity(hits[i].dist)]]
        kept == SelectSeq(tagged, LAMBDA t : IndexValid(t.idx, df))
    IN [i \in 1..Len(kept) |->
           [course |-> ILoc(df, kept[i].idx), score |-> kept[i].score, hit |-> kept[i].hit]]

\* is_ready additionally demanding a non-empty index and table.
IsReadyNonEmpty ==
    /\ rIndex.some /\ rDf.some
    /\ Len(rIndex.data) > 0 /\ Len(rDf.data) > 0

\* CourseRecommender.is_ready, line 82.
IsReady == rIndex.some /\ rDf.some

\* get_recommendations, lines 33-35: the recommender holds no pair.
CallNotReady(k) ==
    /\ ~(rIndex.some /\ rDf.some)
    /\ callK' = k
    /\ callHits' = <<>>
    /\ callResult' = <<>>
    /\ callOutcome' = "returned"
    /\ callLog' = "not_initialized"

\* index.search with top_k < 0 raises (the result arrays cannot be
\* allocated), and current versions of the library reject top_k = 0 as well;
\* nothing between line 128 and the caller catches it.
CallRaises(k) ==
    /\ rIndex.some /\ rDf.some
    /\ k <= 0
    /\ callK' = k
    /\ callHits' = <<>>
    /\ callResult' = <<>>
    /\ callOutcome' = "raised"
    /\ callLog' = "searching"

\* index.search with top_k = 0 on a version of the library that accepts it:
\* no slot is returned and the loop of lines 136-139 has nothing to do.
CallZero(k) ==
    /\ rIndex.some /\ rDf.some
    /\ k = 0
    /\ callK' = k
    /\ callHits' = <<>>
    /\ callResult' = <<>>
    /\ callOutcome' = "returned"
    /\ callLog' = "no_recommendations"

\* get_recommendations, lines 37-48, through search_faiss_index.
CallSearch(q, k) ==
    /\ rIndex.some /\ rDf.some
    /\ k > 0
    /\ \E p \in RankOrders(rIndex, Normalize(Encode(q))) :
          LET hits == IndexSearch(rIndex, Normalize(Encode(q)), k, p)
          IN /\ callHits' = hits
             /\ IF LookupRaises(hits, rDf)
                   THEN /\ callResult' = <<>>
                        /\ callOutcome' = "raised"
                        /\ callLog' = "searching"
                   ELSE /\ callResult' = Recommendations(hits, rDf)
                        /\ callOutcome' = "returned"
                        /\ callLog' = IF Recommendations(hits, rDf) # <<>>
                                         THEN "found" ELSE "no_recommendations"
    /\ callK' = k

GetRecommendations(q, k) ==
    /\ rPc = "constructed"
    /\ \/ CallNotReady(k)
       \/ CallRaises(k)
       \/ CallZero(k)
       \/ CallSearch(q, k)
    /\ UNCHANGED loadVars
    /\ UNCHANGED buildVars

\* What the caller of get_recommendations receives: the returned list, or
\* the exception that left the call.
Observed == [result |-> callResult, outcome |-> callOutcome]

Min(a, b) == IF a < b THEN a ELSE b

\* ----------------------------------------------------------------- claims

\* C1: every real hit of the index search (position >= 0, squared distance
\* d2 as the index reported it) is given the score 1 - d2/2, that is
\* 2 * score = 2 - d2.
C1_ScoreIsCosineOfSquaredDistance ==
    \A i \in 1..Len(callResult) :
        callHits[callResult[i].hit].idx >= 0
            => 2 * callResult[i].score = 2 - callHits[callResult[i].hit].dist

\* C2: a query with k > 0 against a loaded corpus of N >= 1 records (index
\* and table both of N entries) returns without error exactly min(k, N) results,
\* each a distinct table row.
C2_ReturnsMinOfKAndN ==
    (/\ callOutcome # "none"
     /\ callLog # "not_initialized"
     /\ callK > 0
     /\ NTotal(rIndex) >= 1
     /\ NTotal(rIndex) = Len(rDf.data))
        => /\ callOutcome = "returned"
           /\ Len(callResult) = Min(callK, NTotal(rIndex))
           /\ \A i, j \in 1..Len(callResult) :
                 i # j => callResult[i].course # callResult[j].course

\* C3: the recommender never holds a pair whose index and table differ in
\* their number of rows: such a load fails.
C3_MismatchedCountsNeverLoaded ==
    (rPc = "constructed" /\ rIndex.some /\ rDf.some)
        => NTotal(rIndex) = Len(rDf.data)

\* C4: whatever build steps interleave with a load, the load yields an index
\* and a table of the same build pass, or no pair at all.
C4_LoadedPairIsOfOneBuild ==
    (rPc = "constructed" /\ (rIndex.some \/ rDf.some))
        => (rIndex.some /\ rDf.some /\ rIndex.gen = rDf.gen)

\* C5: a search on an index of zero entries, or with k <= 0, returns the
\* empty list and raises nothing.
C5_EmptyListOnEmptyIndexOrNonPositiveK ==
    (/\ callOutcome # "none"
     /\ (callK <= 0 \/ (rIndex.some /\ rDf.some /\ NTotal(rIndex) = 0)))
        => (callOutcome = "returned" /\ callResult = <<>>)

\* C6: a call on a recommender that is not ready returns the empty list
\* without failing, and what the caller receives differs from what it
\* receives from a ready recommender that found no match (an empty list,
\* returned normally).
C6_NotReadyIsDistinguishable ==
    callLog = "not_initialized"
        => /\ callOutcome = "returned"
           /\ callResult = <<>>
           /\ Observed # [result |-> <<>>, outcome |-> "returned"]

C8_ScoreWithinUnitInterval ==
    \A i \in 1..Len(callResult) :
        0 - 1 <= callResult[i].score /\ callResult[i].score <= 1

\* C9: in every returned list the scores are non-increasing.
C9_ScoresNonIncreasing ==
    \A i \in 1..(Len(callResult) - 1) :
        callResult[i].score >= callResult[i + 1].score

\* C9 witness: two real hits with a strictly larger first score, followed by
\* a third result, returned for a k above the number of index entries.
C9_Witness ==
    /\ callOutcome = "returned"
    /\ Len(callResult) >= 3
    /\ callHits[callResult[2].hit].idx >= 0
    /\ callResult[1].score > callResult[2].score
    /\ callK > NTotal(rIndex)

\* C10: a load that met a missing index file or a missing table file
\* reports the not-found failure and leaves neither an index nor a table.
C10_MissingArtifactReportsNotFound ==
    (rPc = "constructed" /\ (~sawIdx \/ ~sawTbl))
        => (loadLog = "not_found" /\ ~rIndex.some /\ ~rDf.some)

\* C12: a search with k > 0 on a table of at least one row does not fail on
\* any position the index returned, every result comes from a position inside 0..len(table)-1 and
\* carries exactly that table row, so fillers (-1) and positions at or above
\* len(table) contribute nothing.
C12_OnlyInBoundsPositionsEmit ==
    (/\ callOutcome # "none" /\ callLog # "not_initialized"
     /\ callK > 0 /\ Len(rDf.data) >= 1)
        => /\ callOutcome = "returned"
           /\ \A i \in 1..Len(callResult) :
                 LET p == callHits[callResult[i].hit].idx
                 IN /\ 0 <= p /\ p < Len(rDf.data)
                    /\ callResult[i].course = rDf.data[p + 1]

Next ==
    \/ \E csv \in Catalogs(1) : BuildWriteIndex(csv)
    \/ BuildWriteTable
    \/ BuildStopped
    \/ LoadReadIndex
    \/ LoadReadTable
    \/ \E q \in QueryTexts, k \in TopKs : GetRecommendations(q, k)

Spec == Init /\ [][Next]_vars

====
